---- MODULE Spec2Model ----
(***************************************************************************)
(* Model of nannies/vmfs_balance.py: the inventory join, the weighting,    *)
(* the simulated move and the two balancing passes run by check_loop.      *)
(*                                                                         *)
(* Sizes are byte counts.  Python's float arithmetic is modelled by exact  *)
(* rationals <<numerator, denominator>> in lowest terms with a positive    *)
(* denominator, so that equal values are equal tuples.  An exception that  *)
(* propagates out of check_loop ends the process: pc = "crashed".          *)
(***************************************************************************)
EXTENDS Integers, Sequences, FiniteSets, TLC

(***************************************************************************)
(* Bounds of the model.                                                    *)
(***************************************************************************)
\* model stand-in for the byte count of one gigabyte (1024**3 in the code)
GiB == 2
\* largest value of --max-move-vms that is explored
MaxMoveVmsBound == 1

None == 0

(***************************************************************************)
(* Exact rational arithmetic (stands for Python float arithmetic).         *)
(***************************************************************************)
Abs(x) == IF x < 0 THEN -x ELSE x

RECURSIVE GCD(_, _)
GCD(a, b) == IF b = 0 THEN a ELSE GCD(b, a % b)

Rat(n, d) ==
    LET g == GCD(Abs(n), Abs(d))
        s == IF d < 0 THEN -1 ELSE 1
    IN  <<(s * n) \div g, (s * d) \div g>>

RatInt(n) == <<n, 1>>
RatLt(a, b) == a[1] * b[2] < b[1] * a[2]
RatLe(a, b) == a[1] * b[2] <= b[1] * a[2]
RatAdd(a, b) == Rat(a[1] * b[2] + b[1] * a[2], a[2] * b[2])
RatSub(a, b) == Rat(a[1] * b[2] - b[1] * a[2], a[2] * b[2])
RatMul(a, b) == Rat(a[1] * b[1], a[2] * b[2])
RatDiv(a, b) == Rat(a[1] * b[2], a[2] * b[1])
RatMin(a, b) == IF RatLe(a, b) THEN a ELSE b

RECURSIVE SumSeq(_)
SumSeq(s) == IF s = <<>> THEN 0 ELSE Head(s) + SumSeq(Tail(s))

\* all elements of a sequence, as a set
Range(s) == {s[i] : i \in DOMAIN s}

(***************************************************************************)
(* Python's list.sort / sorted: stable, on a key.  The argument is a       *)
(* sequence of pairs <<key, item>> with a rational key; the result is the  *)
(* sequence of items.  With reverse=True equal keys keep their original    *)
(* relative order too.                                                     *)
(***************************************************************************)
RECURSIVE InsertAsc(_, _)
InsertAsc(sorted, p) ==
    IF sorted = <<>> THEN <<p>>
    ELSE IF RatLt(p[1], Head(sorted)[1])
         THEN <<p>> \o sorted
         ELSE <<Head(sorted)>> \o InsertAsc(Tail(sorted), p)

RECURSIVE SortPairsAsc(_)
SortPairsAsc(s) ==
    IF s = <<>> THEN <<>>
    ELSE InsertAsc(SortPairsAsc(SubSeq(s, 1, Len(s) - 1)), s[Len(s)])

RECURSIVE InsertDesc(_, _)
InsertDesc(sorted, p) ==
    IF sorted = <<>> THEN <<p>>
    ELSE IF RatLt(Head(sorted)[1], p[1])
         THEN <<p>> \o sorted
         ELSE <<Head(sorted)>> \o InsertDesc(Tail(sorted), p)

RECURSIVE SortPairsDesc(_)
SortPairsDesc(s) ==
    IF s = <<>> THEN <<>>
    ELSE InsertDesc(SortPairsDesc(SubSeq(s, 1, Len(s) - 1)), s[Len(s)])

Items(pairs) == [i \in DOMAIN pairs |-> pairs[i][2]]

(***************************************************************************)
(* Names.  The code classifies names with regular expressions; the model   *)
(* uses a fixed universe of names and lists the names each pattern matches.*)
(***************************************************************************)
DsName1 == "vmfs_vc_a_ssd_1"
DsName2 == "vmfs_vc_a_ssd_2"
DsName3 == "vmfs_vc_a_ssd_3"
DsName4 == "vmfs_vc_a_ssd_4"
HddName == "vmfs_vc_a_hdd_5"
\* a LUN name that no datastore carries
LunOnlyName == "vmfs_vc_a_ssd_9"

\* re.match('^(?:vmfs_vc.*_ssd_).*', name)
MatchesVmfsSsd(name) == name \in {DsName1, DsName2, DsName3, DsName4, LunOnlyName}
\* re.compile(r"^.*_ssd_.*$").match(name)
MatchesSsd(name) == name \in {DsName1, DsName2, DsName3, DsName4, LunOnlyName}
\* re.compile(r"^.*_hdd_.*$").match(name)
MatchesHdd(name) == name \in {HddName}

(***************************************************************************)
(* class VM                                                                *)
(***************************************************************************)
\* vm_element: [disks: sequence of capacityInBytes, minimal: the 128 MB /
\* 1 CPU / poweredOff / no network card signature]
VM(vm_element, handle) ==
    [handle |-> handle, disks |-> vm_element.disks, minimal |-> vm_element.minimal]

is_shadow_vm(vm) == vm.minimal /\ Len(vm.disks) = 1

get_total_disksize(vm) == SumSeq(vm.disks)

\* VMs.__init__ : the list of VM objects, in the order of the snapshot
VMs(vc) == [h \in DOMAIN vc.vms |-> VM(vc.vms[h], h)]

\* VMs.get_shadow_vms : in the order of vm_info, those in vm_handles
get_shadow_vms(vm_info, vm_handles) ==
    SelectSeq(vm_info, LAMBDA vm : vm.handle \in vm_handles /\ is_shadow_vm(vm))

(***************************************************************************)
(* class DS                                                                *)
(***************************************************************************)
\* (1 - freespace / capacity) * 100
UsageOf(freespace, capacity) == Rat((capacity - freespace) * 100, capacity)

DS(ds_element) ==
    [name       |-> ds_element.name,
     freespace  |-> ds_element.freeSpace,
     capacity   |-> ds_element.capacity,
     used       |-> ds_element.capacity - ds_element.freeSpace,
     usage      |-> UsageOf(ds_element.freeSpace, ds_element.capacity),
     vm_handles |-> ds_element.vm]

\* add_shadow_vm without the recalculation of usage
add_shadow_vm_stale_usage(ds, vm) ==
    [ds EXCEPT !.freespace = @ - get_total_disksize(vm),
               !.vm_handles = @ \cup {vm.handle}]

\* add_shadow_vm that leaves freespace as it is
add_shadow_vm_keeps_freespace(ds, vm) ==
    [ds EXCEPT !.vm_handles = @ \cup {vm.handle}]

\* add_shadow_vm that keeps `used` in step with the free space
add_shadow_vm_adjusts_used(ds, vm) ==
    [ds EXCEPT !.freespace = @ - get_total_disksize(vm),
               !.vm_handles = @ \cup {vm.handle},
               !.used = @ + get_total_disksize(vm),
               !.usage = UsageOf(ds.freespace - get_total_disksize(vm), ds.capacity)]

add_shadow_vm(ds, vm) ==
    [ds EXCEPT !.freespace = @ - get_total_disksize(vm),
               !.vm_handles = @ \cup {vm.handle},
               !.usage = UsageOf(ds.freespace - get_total_disksize(vm), ds.capacity)]

\* remove_shadow_vm that takes the vm size off the free space
remove_shadow_vm_subtracts(ds, vm) ==
    [ds EXCEPT !.vm_handles = @ \ {vm.handle},
               !.freespace = @ - get_total_disksize(vm),
               !.usage = UsageOf(ds.freespace - get_total_disksize(vm), ds.capacity)]

\* remove_shadow_vm that leaves the handle in the vm list
remove_shadow_vm_keeps_handle(ds, vm) ==
    [ds EXCEPT !.freespace = @ + get_total_disksize(vm),
               !.usage = UsageOf(ds.freespace + get_total_disksize(vm), ds.capacity)]

remove_shadow_vm(ds, vm) ==
    [ds EXCEPT !.vm_handles = @ \ {vm.handle},
               !.freespace = @ + get_total_disksize(vm),
               !.usage = UsageOf(ds.freespace + get_total_disksize(vm), ds.capacity)]

(***************************************************************************)
(* class DataStores.  The DS objects live in a heap `objs` (object id ->   *)
(* DS record); `elements` is the list of object ids.                       *)
(***************************************************************************)
\* DataStores.__init__ : one object per datastore of non-zero capacity
DataStoresObjs(vc) ==
    [i \in {j \in DOMAIN vc.datastores : vc.datastores[j].capacity # 0}
        |-> DS(vc.datastores[i])]

DataStoresElements(vc) ==
    SelectSeq([j \in DOMAIN vc.datastores |-> j],
              LAMBDA j : vc.datastores[j].capacity # 0)

\* DataStores.get_by_name : the first object of that name, or None
get_by_name(elements, objs, ds_name) ==
    LET hits == SelectSeq(elements, LAMBDA i : objs[i].name = ds_name)
    IN  IF hits = <<>> THEN None ELSE Head(hits)

\* vmfs_ds that does not look at the deny list
vmfs_ds_ignores_denylist(elements, objs, ds_denylist) ==
    SelectSeq(elements, LAMBDA i : MatchesVmfsSsd(objs[i].name))

\* DataStores.vmfs_ds
vmfs_ds(elements, objs, ds_denylist) ==
    SelectSeq(elements,
              LAMBDA i : /\ MatchesVmfsSsd(objs[i].name)
                         /\ ~(ds_denylist # {} /\ objs[i].name \in ds_denylist))

\* every ds weighs 1
WeightOf_always_one(ds_weight, name) == RatInt(1)

\* ds_weight.get(name, 1)
WeightOf(ds_weight, name) ==
    IF name \in DOMAIN ds_weight THEN ds_weight[name] ELSE RatInt(1)

\* sort_by_usage without reverse=True
sort_by_usage_ascending(elements, objs, ds_weight) ==
    Items(SortPairsAsc(
        [k \in DOMAIN elements |->
            <<RatMul(objs[elements[k]].usage,
                     WeightOf(ds_weight, objs[elements[k]].name)),
              elements[k]>>]))

\* DataStores.sort_by_usage
sort_by_usage(elements, objs, ds_weight) ==
    Items(SortPairsDesc(
        [k \in DOMAIN elements |->
            <<RatMul(objs[elements[k]].usage,
                     WeightOf(ds_weight, objs[elements[k]].name)),
              elements[k]>>]))

EmptyWeight == [n \in {} |-> RatInt(1)]

get_overall_capacity(elements, objs) ==
    SumSeq([k \in DOMAIN elements |-> objs[elements[k]].capacity])

get_overall_freespace(elements, objs) ==
    SumSeq([k \in DOMAIN elements |-> objs[elements[k]].freespace])

get_overall_average_usage(elements, objs) ==
    UsageOf(get_overall_freespace(elements, objs),
            get_overall_capacity(elements, objs))

(***************************************************************************)
(* class NAAggr and class NAs: the aggregates of the netapps, each with    *)
(* the LUNs of its flexvols joined in by name.                             *)
(***************************************************************************)
NAAggr(naaggr_element, parent) ==
    LET fvols == SelectSeq(parent.fvols, LAMBDA fvol : fvol.aggr = naaggr_element.name)
        LunsOf(fvol) == SelectSeq(parent.luns, LAMBDA lun : lun.fvol = fvol.name)
        RECURSIVE Extend(_)
        Extend(fs) == IF fs = <<>> THEN <<>>
                      ELSE LunsOf(Head(fs)) \o Extend(Tail(fs))
    IN  [name     |-> naaggr_element.name,
         usage    |-> naaggr_element.usage,
         capacity |-> naaggr_element.capacity,
         luns     |-> Extend(fvols)]

\* all aggregates of all netapps, in the order the nested loops visit them
NAs(vc) == [k \in DOMAIN vc.aggrs |-> NAAggr(vc.aggrs[k], vc)]

(***************************************************************************)
(* sort_vms_by_total_disksize and move_shadow_vm_from_ds_to_ds             *)
(***************************************************************************)
\* smallest first
sort_vms_by_total_disksize_ascending(vms) ==
    Items(SortPairsAsc([k \in DOMAIN vms |->
                           <<RatInt(get_total_disksize(vms[k])), vms[k]>>]))

sort_vms_by_total_disksize(vms) ==
    Items(SortPairsDesc([k \in DOMAIN vms |->
                            <<RatInt(get_total_disksize(vms[k])), vms[k]>>]))

\* the heap after the simulated move of vm from object ds1 to object ds2
move_shadow_vm_from_ds_to_ds(objs, ds1, ds2, vm) ==
    LET removed == [objs EXCEPT ![ds1] = remove_shadow_vm(objs[ds1], vm)]
    IN  [removed EXCEPT ![ds2] = add_shadow_vm(removed[ds2], vm)]

\* no move logged yet
NoMove == [vm |-> None, size |-> 0, source |-> None, target |-> None,
           source_usage_before |-> <<0, 1>>, source_usage_after |-> <<0, 1>>,
           target_usage_before |-> <<0, 1>>, target_usage_after |-> <<0, 1>>]

\* what the three log lines of the move report
MoveRecord(objs, ds1, ds2, vm) ==
    LET after == move_shadow_vm_from_ds_to_ds(objs, ds1, ds2, vm)
    IN  [vm |-> vm.handle,
         size |-> get_total_disksize(vm),
         source |-> ds1,
         target |-> ds2,
         source_usage_before |-> objs[ds1].usage,
         source_usage_after |-> remove_shadow_vm(objs[ds1], vm).usage,
         target_usage_before |-> IF ds1 = ds2
                                 THEN remove_shadow_vm(objs[ds1], vm).usage
                                 ELSE objs[ds2].usage,
         target_usage_after |-> after[ds2].usage]

(***************************************************************************)
(* get_aggr_and_ds_stats: the weight per datastore name.  The result is    *)
(* [error, ds_weight]; error names the exception that propagates, if any.  *)
(***************************************************************************)
NoError == ""

\* ds_weight[name] = value
PutWeight(ds_weight, name, value) ==
    [n \in DOMAIN ds_weight \cup {name} |->
        IF n = name THEN value ELSE ds_weight[n]]

\* aggr.usage / (ds.used / ds.capacity * 100)
WeightValue(aggr, ds) == Rat(aggr.usage * ds.capacity, ds.used * 100)

\* the loop over aggr.luns; acc = [error, ds_weight, ds_total_capacity]
RECURSIVE StatsOfLuns(_, _, _, _, _)
StatsOfLuns(luns, aggr, elements, objs, acc) ==
    IF luns = <<>> \/ acc.error # NoError THEN acc
    ELSE LET d == get_by_name(elements, objs, Head(luns).name)
         IN  IF d = None
             THEN StatsOfLuns(Tail(luns), aggr, elements, objs, acc)
             ELSE IF objs[d].used = 0
             THEN [acc EXCEPT !.error = "ZeroDivisionError"]
             ELSE StatsOfLuns(Tail(luns), aggr, elements, objs,
                    [error |-> NoError,
                     ds_weight |-> PutWeight(acc.ds_weight, Head(luns).name,
                                             WeightValue(aggr, objs[d])),
                     ds_total_capacity |-> acc.ds_total_capacity + objs[d].capacity])

\* one aggregate: its LUNs, then the log line ds_total_used/ds_total_capacity*100
StatsOfAggr(aggr, elements, objs, ds_weight) ==
    LET acc == StatsOfLuns(aggr.luns, aggr, elements, objs,
                           [error |-> NoError, ds_weight |-> ds_weight,
                            ds_total_capacity |-> 0])
    IN  IF acc.error # NoError THEN acc
        ELSE IF acc.ds_total_capacity = 0
        THEN [acc EXCEPT !.error = "ZeroDivisionError"]
        ELSE acc

RECURSIVE StatsOfAggrs(_, _, _, _)
StatsOfAggrs(aggrs, elements, objs, res) ==
    IF aggrs = <<>> \/ res.error # NoError THEN res
    ELSE LET acc == StatsOfAggr(Head(aggrs), elements, objs, res.ds_weight)
         IN  StatsOfAggrs(Tail(aggrs), elements, objs,
                          [error |-> acc.error, ds_weight |-> acc.ds_weight])

get_aggr_and_ds_stats(na_info_, elements, objs) ==
    StatsOfAggrs(na_info_, elements, objs,
                 [error |-> NoError, ds_weight |-> EmptyWeight])

(***************************************************************************)
(* get_max_usage_aggr: [error, max_usage_aggr, avg_aggr_usage]             *)
(***************************************************************************)
NoAggr == [name |-> "", usage |-> 0, capacity |-> 0, luns |-> <<>>]

get_max_usage_aggr(na_info_) ==
    LET total_capacity == SumSeq([k \in DOMAIN na_info_ |-> na_info_[k].capacity])
        \* total_used * 100
        total_used100 == SumSeq([k \in DOMAIN na_info_ |->
                                    na_info_[k].usage * na_info_[k].capacity])
        all_aggr_list == Items(SortPairsAsc([k \in DOMAIN na_info_ |->
                                    <<RatInt(na_info_[k].usage), na_info_[k]>>]))
    IN  IF all_aggr_list = <<>>
        THEN [error |-> "IndexError", max_usage_aggr |-> NoAggr,
              avg_aggr_usage |-> RatInt(0)]
        ELSE IF total_capacity = 0
        THEN [error |-> "ZeroDivisionError", max_usage_aggr |-> NoAggr,
              avg_aggr_usage |-> RatInt(0)]
        ELSE [error |-> NoError,
              max_usage_aggr |-> all_aggr_list[Len(all_aggr_list)],
              avg_aggr_usage |-> Rat(total_used100, total_capacity)]

(***************************************************************************)
(* Pieces of vmfs_aggr_balancing and vmfs_ds_balancing                     *)
(***************************************************************************)
\* (max_usage_aggr.usage - avg_aggr_usage) * max_usage_aggr.capacity / 100
SizeToFree(max_aggr, avg) ==
    RatMul(RatSub(RatInt(max_aggr.usage), avg), Rat(max_aggr.capacity, 100))

\* the comparison without the autopilot range
WithinAutopilotRange_no_range(max_aggr, avg, autopilot_range) ==
    RatLt(RatInt(max_aggr.usage), avg)

\* max_usage_aggr.usage < avg_aggr_usage + args.autopilot_range
WithinAutopilotRange(max_aggr, avg, autopilot_range) ==
    RatLt(RatInt(max_aggr.usage), RatAdd(avg, RatInt(autopilot_range)))

\* lun_name_re.match(lun.name)
LunNameMatches(hdd, name) == IF hdd THEN MatchesHdd(name) ELSE MatchesSsd(name)

\* balancing_source_ds taken from all datastores instead of the LUNs of the
\* most used aggregate
BalancingSourceDs_all_ds(max_aggr, elements, objs, hdd) ==
    SelectSeq(elements, LAMBDA i : LunNameMatches(hdd, objs[i].name))

\* balancing_source_ds before it is sorted: object ids, None where
\* get_by_name finds no datastore
BalancingSourceDs(max_aggr, elements, objs, hdd) ==
    LET luns == SelectSeq(max_aggr.luns,
                          LAMBDA lun : lun.type = "vmfs" /\ LunNameMatches(hdd, lun.name))
    IN  [k \in DOMAIN luns |-> get_by_name(elements, objs, luns[k].name)]

\* the first of the sorted balancing_source_ds instead of the last
MostUsedDsOnMostUsedAggr_first(sources, objs) ==
    LET sorted == Items(SortPairsAsc([k \in DOMAIN sources |->
                                         <<objs[sources[k]].usage, sources[k]>>]))
    IN  sorted[1]

\* balancing_source_ds.sort(key=lambda ds: ds.usage); balancing_source_ds[-1]
MostUsedDsOnMostUsedAggr(sources, objs) ==
    LET sorted == Items(SortPairsAsc([k \in DOMAIN sources |->
                                         <<objs[sources[k]].usage, sources[k]>>]))
    IN  sorted[Len(sorted)]

LunNames(aggr) == {aggr.luns[k].name : k \in DOMAIN aggr.luns}

\* extended_ds_denylist, as a set of names
ExtendedDsDenylist(ds_denylist, max_aggr) == ds_denylist \cup LunNames(max_aggr)

\* args.ds_denylist after the pass has built extended_ds_denylist: a non-empty
\* configured list is the very list object that is extended
DenylistAfterExtend(ds_denylist, max_aggr) ==
    IF ds_denylist # {} THEN ExtendedDsDenylist(ds_denylist, max_aggr)
    ELSE ds_denylist

\* the move limit checked one move too late
MaxMovesReached_late(moves, max_move_vms) == moves > max_move_vms + 1

\* the loop does not stop on the size moved
EnoughSpaceFreed_never(moved, to_free) == FALSE

\* the loop does not stop on the number of moves
MaxMovesReached_never(moves, max_move_vms) == FALSE

\* the three stop conditions at the head of the aggr balancing loop
MaxMovesReached(moves, max_move_vms) == moves > max_move_vms

EnoughSpaceFreed(moved, to_free) == RatLt(to_free, RatInt(moved))

\* most_used_ds_on_most_used_aggr.usage <
\*     (ds_overall_average_usage - 4 * args.autopilot_range)
SourceLowEnough(usage, average, autopilot_range) ==
    RatLt(usage, RatSub(average, RatInt(4 * autopilot_range)))

\* the size window without the floor of free space on the target
AggrCandidates_no_floor(vms, source, least_used_ds, a) ==
    SelectSeq(get_shadow_vms(vms, source.vm_handles),
              LAMBDA vm : /\ a.aggr_volume_min_size * GiB <= get_total_disksize(vm)
                          /\ get_total_disksize(vm) <= least_used_ds.freespace
                          /\ get_total_disksize(vm) <= a.aggr_volume_max_size * GiB)

\* the shadow vms on the source that fit the size window of the aggr balancing
AggrCandidates(vms, source, least_used_ds, a) ==
    LET least_used_ds_free_space == least_used_ds.freespace - a.min_freespace * GiB
    IN  SelectSeq(get_shadow_vms(vms, source.vm_handles),
                  LAMBDA vm : /\ a.aggr_volume_min_size * GiB <= get_total_disksize(vm)
                              /\ get_total_disksize(vm) <= least_used_ds_free_space
                              /\ get_total_disksize(vm) <= a.aggr_volume_max_size * GiB)

\* min_usage and max_usage of the ds balancing: a range around the average in
\* autopilot mode, the command line values otherwise
MinUsage(a, average) ==
    IF a.autopilot THEN RatSub(average, RatInt(a.autopilot_range))
    ELSE RatInt(a.min_usage)

MaxUsage(a, average) ==
    IF a.autopilot THEN RatAdd(average, RatInt(a.autopilot_range))
    ELSE RatInt(a.max_usage)

\* vm_maxdisksize from the whole difference of the free spaces, not the half
VmMaxDiskSize_whole_gap(most_used_ds, least_used_ds, a) ==
    RatMin(Rat(least_used_ds.freespace - most_used_ds.freespace, GiB),
           RatInt(a.flexvol_volume_max_size))

\* vm_maxdisksize from the absolute difference of the free spaces
VmMaxDiskSize_abs(most_used_ds, least_used_ds, a) ==
    RatMin(Rat(Abs(least_used_ds.freespace - most_used_ds.freespace), 2 * GiB),
           RatInt(a.flexvol_volume_max_size))

\* vm_maxdisksize (in gb) =
\*   min((least.freespace - most.freespace) / (2 * 1024**3), flexvol_volume_max_size)
VmMaxDiskSize(most_used_ds, least_used_ds, a) ==
    RatMin(Rat(least_used_ds.freespace - most_used_ds.freespace, 2 * GiB),
           RatInt(a.flexvol_volume_max_size))

\* the shadow vms on the most used ds that fit the size window of the ds balancing
DsCandidates(vms, most_used_ds, least_used_ds, a) ==
    SelectSeq(get_shadow_vms(vms, most_used_ds.vm_handles),
              LAMBDA vm : /\ RatLe(RatInt(a.flexvol_volume_min_size),
                                   Rat(get_total_disksize(vm), GiB))
                          /\ RatLe(Rat(get_total_disksize(vm), GiB),
                                   VmMaxDiskSize(most_used_ds, least_used_ds, a)))

(***************************************************************************)
(* The inventories and configurations explored.                            *)
(***************************************************************************)
DsShapes == {[capacity |-> 4, freeSpace |-> 0],
             [capacity |-> 4, freeSpace |-> 2],
             [capacity |-> 8, freeSpace |-> 4]}

\* datastores 1 to 3 take every shape, datastore 4 has one shape
DsShapings == {s \in [1..4 -> DsShapes] : s[4] = [capacity |-> 8, freeSpace |-> 4]}

DsNames == <<DsName1, DsName2, DsName3, DsName4>>

\* two shadow vms: their disks, in the order of the vm snapshot
VmDisks == {<<1, 1>>, <<2, 1>>}

\* usage (percent-used-capacity) of aggr1 and aggr2
AggrUsages == {<<80, 40>>, <<40, 80>>, <<50, 50>>}

\* which LUNs carry the name of their datastore (LUN k is the LUN of
\* datastore k); the others carry a name no datastore has
LunMatchings == {{1, 2, 3, 4}, {1, 2, 3}, {1, 2, 4}, {1, 4}}

\* the datastore each of the two shadow vms is on
VmPlaces == [1..2 -> 1..4]

\* what the vcenter and the netapps report: four datastores, two shadow vms,
\* two aggregates with one flexvol each, the LUNs of datastores 1 to 3 on
\* aggr1 and the LUN of datastore 4 on aggr2
World(names, shape, place, disks, usages, matched) ==
    [datastores |-> [i \in 1..4 |->
            [name |-> names[i],
             capacity |-> shape[i].capacity,
             freeSpace |-> shape[i].freeSpace,
             vm |-> {h \in 1..2 : place[h] = i}]],
     vms   |-> [h \in 1..2 |-> [disks |-> <<disks[h]>>, minimal |-> TRUE]],
     aggrs |-> [k \in 1..2 |-> [name |-> <<"aggr1", "aggr2">>[k],
                                usage |-> usages[k],
                                capacity |-> 10]],
     fvols |-> <<[name |-> "vmfs_f1", aggr |-> "aggr1", type |-> "vmfs"],
                 [name |-> "vmfs_f2", aggr |-> "aggr2", type |-> "vmfs"]>>,
     luns  |-> [k \in 1..4 |->
                  [name |-> IF k \in matched THEN names[k] ELSE LunOnlyName,
                   fvol |-> IF k = 4 THEN "vmfs_f2" ELSE "vmfs_f1",
                   type |-> "vmfs"]]]

Worlds ==
    { World(DsNames, shape, place, disks, usages, matched) :
        shape \in DsShapings, place \in VmPlaces,
        disks \in VmDisks, usages \in AggrUsages,
        matched \in LunMatchings }

\* inventories at the edges: every LUN carries the name of its datastore, and
\* either all is there, or the fourth datastore is a hdd one, or the vcenter
\* reports no datastore, or the netapps report no aggregate
EdgeShape ==
    [i \in 1..4 |-> IF i = 1 THEN [capacity |-> 4, freeSpace |-> 0]
                    ELSE IF i = 4 THEN [capacity |-> 8, freeSpace |-> 4]
                    ELSE [capacity |-> 4, freeSpace |-> 2]]

EdgeBaseWorlds ==
    { World(DsNames, EdgeShape, place, <<1, 1>>, usages, 1..4) :
        place \in VmPlaces, usages \in AggrUsages }

HddWorlds ==
    { World(<<DsName1, DsName2, DsName3, HddName>>, EdgeShape, place, <<1, 1>>,
            usages, 1..4) :
        place \in VmPlaces, usages \in AggrUsages }

NoDatastoreWorlds == { [w EXCEPT !.datastores = <<>>] : w \in EdgeBaseWorlds }

NoAggrWorlds ==
    { [w EXCEPT !.aggrs = <<>>, !.fvols = <<>>, !.luns = <<>>] :
        w \in EdgeBaseWorlds }

(***************************************************************************)
(* Scenario A of the specification: datastores X (90% used), Y (50%) and   *)
(* Z (40%) of 1000 gb each, one shadow vm of 50 gb on X.  A fourth         *)
(* datastore W is the one on the most used aggregate aggr2.  The usage of  *)
(* aggr1, which LUNs carry their datastore's name and the order of the     *)
(* datastores in the snapshot vary.                                        *)
(***************************************************************************)
ScenarioFree(role) ==
    CASE role = "X" -> 100 * GiB
      [] role = "Y" -> 500 * GiB
      [] role = "Z" -> 600 * GiB
      [] role = "W" -> 300 * GiB

ScenarioRoles == {<<"X", "Y", "Z", "W">>, <<"Z", "Y", "X", "W">>}

ScenarioWorlds ==
    { [datastores |-> [i \in 1..4 |->
            [name |-> DsNames[i],
             capacity |-> 1000 * GiB,
             freeSpace |-> ScenarioFree(roles[i]),
             vm |-> IF roles[i] = "X" THEN {1} ELSE {}]],
       vms   |-> <<[disks |-> <<50 * GiB>>, minimal |-> TRUE]>>,
       aggrs |-> <<[name |-> "aggr1", usage |-> u1, capacity |-> 10000 * GiB],
                   [name |-> "aggr2", usage |-> 80, capacity |-> 10000 * GiB]>>,
       fvols |-> <<[name |-> "vmfs_f1", aggr |-> "aggr1", type |-> "vmfs"],
                   [name |-> "vmfs_f2", aggr |-> "aggr2", type |-> "vmfs"]>>,
       luns  |-> [k \in 1..4 |->
                    [name |-> IF k \in matched THEN DsNames[k] ELSE LunOnlyName,
                     fvol |-> IF k = 4 THEN "vmfs_f2" ELSE "vmfs_f1",
                     type |-> "vmfs"]]] :
        roles \in ScenarioRoles, u1 \in {30, 50},
        matched \in {{1, 2, 3, 4}, {1, 2, 4}, {2, 3, 4}, {1, 3, 4}} }

ScenarioArgs ==
    { [max_move_vms |-> m,
       ds_denylist |-> {},
       autopilot |-> TRUE,
       min_usage |-> 60,
       max_usage |-> 0,
       autopilot_range |-> 5,
       min_freespace |-> f,
       aggr_volume_min_size |-> 0,
       aggr_volume_max_size |-> 100,
       flexvol_volume_min_size |-> 0,
       flexvol_volume_max_size |-> 100,
       hdd |-> FALSE] : m \in 0..MaxMoveVmsBound, f \in {0, 600} }

Args(max_move_vms, ds_denylist, autopilot) ==
    [max_move_vms |-> max_move_vms,
     ds_denylist |-> ds_denylist,
     autopilot |-> autopilot,
     min_usage |-> 50,
     max_usage |-> 100,
     autopilot_range |-> 5,
     min_freespace |-> 0,
     aggr_volume_min_size |-> 0,
     aggr_volume_max_size |-> 1,
     flexvol_volume_min_size |-> 0,
     flexvol_volume_max_size |-> 2,
     hdd |-> FALSE]

ArgsChoices ==
    { Args(c[1], c[2], c[3]) :
        c \in ((0..MaxMoveVmsBound) \X {{}} \X {TRUE})
                \cup {<<MaxMoveVmsBound, {DsName2}, FALSE>>} }

\* deny lists that, with the LUNs of the most used aggregate, cover every ds
CoveringDenylists == {{DsName4}, {DsName1, DsName2, DsName3}}

EdgeStarts ==
    ((HddWorlds \cup NoDatastoreWorlds \cup NoAggrWorlds)
        \X {Args(MaxMoveVmsBound, {}, TRUE)})
    \cup (EdgeBaseWorlds \X {Args(MaxMoveVmsBound, l, TRUE) : l \in CoveringDenylists})

\* --min-freespace 1 where the aggr balancing has work to do: aggr1 is the most
\* used aggregate and every LUN carries the name of its datastore
FloorStarts ==
    { World(DsNames, shape, place, disks, <<80, 40>>, 1..4) :
        shape \in DsShapings, place \in VmPlaces, disks \in VmDisks }
    \X {[Args(MaxMoveVmsBound, {}, TRUE) EXCEPT !.min_freespace = 1]}

\* aggr1 just beyond the autopilot range, with less to free than the larger
\* of the two shadow vms holds
SizeStopStarts ==
    { World(DsNames, shape, place, <<2, 1>>, <<70, 50>>, 1..4) :
        shape \in DsShapings, place \in VmPlaces }
    \X {Args(MaxMoveVmsBound, {}, TRUE)}

\* --hdd with the hdd datastore on the most used aggregate
HddStarts ==
    { World(<<DsName1, DsName2, DsName3, HddName>>, EdgeShape, place, <<1, 1>>,
            <<40, 80>>, 1..4) : place \in VmPlaces }
    \X {[Args(MaxMoveVmsBound, {}, TRUE) EXCEPT !.hdd = TRUE]}

\* thin provisioned disks: the first shadow vm has a disk larger than the
\* space used on any of the datastores of 4 bytes
ThinStarts ==
    { World(DsNames, shape, place, <<3, 1>>, <<80, 40>>, 1..4) :
        shape \in DsShapings, place \in VmPlaces }
    \X {[Args(MaxMoveVmsBound, {}, TRUE) EXCEPT !.aggr_volume_max_size = 2]}

\* vcenter-cleanup.py is not running
NoOpts == [iterations |-> 0, dry_run |-> FALSE, power_off |-> FALSE,
           unregister |-> FALSE, delete |-> FALSE]

NoVcenter == [known |-> TRUE, power_state |-> "", path |-> "", mounted |-> FALSE]

(***************************************************************************)
(* State                                                                   *)
(***************************************************************************)
VARIABLES
    world,        \* what the vcenter and the netapps report
    args,         \* the parsed command line
    pc,           \* where check_loop is
    error,        \* the exception that ended the process, if any
    vm_info,      \* VMs(vc).elements
    ds_objs,      \* the DS objects of DataStores(vc)
    ds_elements,  \* DataStores(vc).elements, as object ids
    na_info,      \* the aggregates of NAs(...)
    ds_weight,
    max_usage_aggr,
    size_to_free_on_max_used_aggr,
    most_used_ds_on_most_used_aggr,
    ds_overall_average_usage,
    moves_done,
    moved_size,
    last_move,    \* what the latest move of the pass logged, or NoMove
    iter_log,     \* per ds balancing iteration: usage gap and vm_maxdisksize
    loop_runs,    \* the iterations of the balancing loop started in this pass
    \* vcenter-cleanup.py
    opts,                    \* the command line options of run_me
    vcenter,                 \* what openstack and the vcenter hold of the orphan
    vms_to_be_suspended,
    vms_to_be_poweredoff,
    vms_to_be_unregistered,
    vms_seen,
    files_to_be_deleted,
    files_to_be_renamed,
    files_seen,
    run_log,                 \* the calls of now_or_later in the latest run
    candidate_runs,          \* per action and id: the runs in a row, up to now,
                             \* in which the id was a candidate for the action
    runs_since_step,         \* the runs of cleanup_items completed since the one
                             \* that suspended, powered off or unregistered the
                             \* vm (MaxIterations: none did, or that long ago)
    performed,               \* per action and id: the action has been performed
                             \* on the id in one of these runs in a row
    properties               \* how collect_properties has ended in the latest run
                             \* that has called it

vars == <<world, args, pc, error, vm_info, ds_objs, ds_elements, na_info,
          ds_weight, max_usage_aggr, size_to_free_on_max_used_aggr,
          most_used_ds_on_most_used_aggr, ds_overall_average_usage,
          moves_done, moved_size, last_move, iter_log, loop_runs,
          opts, vcenter, vms_to_be_suspended, vms_to_be_poweredoff,
          vms_to_be_unregistered, vms_seen, files_to_be_deleted,
          files_to_be_renamed, files_seen, run_log, candidate_runs,
          runs_since_step, performed, properties>>

\* the state of vcenter-cleanup.py
nanny == <<opts, vcenter, vms_to_be_suspended, vms_to_be_poweredoff,
           vms_to_be_unregistered, vms_seen, files_to_be_deleted,
           files_to_be_renamed, files_seen, run_log, candidate_runs,
           runs_since_step, performed, properties>>

\* the state of vmfs_balance.py but for pc and error
balancer == <<world, args, vm_info, ds_objs, ds_elements, na_info, ds_weight,
              max_usage_aggr, size_to_free_on_max_used_aggr,
              most_used_ds_on_most_used_aggr, ds_overall_average_usage,
              moves_done, moved_size, last_move, iter_log, loop_runs>>

inventory == <<vm_info, ds_objs, ds_elements, na_info>>

locals == <<ds_weight, max_usage_aggr, size_to_free_on_max_used_aggr,
            most_used_ds_on_most_used_aggr, ds_overall_average_usage,
            moves_done, moved_size, last_move, iter_log, loop_runs>>

Init ==
    /\ \E start \in (Worlds \X ArgsChoices) \cup (ScenarioWorlds \X ScenarioArgs)
                        \cup EdgeStarts \cup FloorStarts \cup SizeStopStarts
                        \cup HddStarts \cup ThinStarts :
          /\ world = start[1]
          /\ args = start[2]
    /\ pc = "fetch_aggr"
    /\ error = NoError
    /\ vm_info = <<>>
    /\ ds_objs = <<>>
    /\ ds_elements = <<>>
    /\ na_info = <<>>
    /\ ds_weight = EmptyWeight
    /\ max_usage_aggr = NoAggr
    /\ size_to_free_on_max_used_aggr = RatInt(0)
    /\ most_used_ds_on_most_used_aggr = None
    /\ ds_overall_average_usage = RatInt(0)
    /\ moves_done = 0
    /\ moved_size = 0
    /\ last_move = NoMove
    /\ iter_log = <<>>
    /\ loop_runs = 0
    /\ opts = NoOpts
    /\ vcenter = NoVcenter
    /\ vms_to_be_suspended = <<>>
    /\ vms_to_be_poweredoff = <<>>
    /\ vms_to_be_unregistered = <<>>
    /\ vms_seen = <<>>
    /\ files_to_be_deleted = <<>>
    /\ files_to_be_renamed = <<>>
    /\ files_seen = <<>>
    /\ run_log = <<>>
    /\ candidate_runs = <<>>
    /\ runs_since_step = 0
    /\ performed = <<>>
    /\ properties = ""

(***************************************************************************)
(* check_loop                                                              *)
(***************************************************************************)
\* an exception propagates out of check_loop and main: the process ends
Raise(exception) ==
    /\ pc' = "crashed"
    /\ error' = exception

ResetLocals ==
    /\ ds_weight' = EmptyWeight
    /\ max_usage_aggr' = NoAggr
    /\ size_to_free_on_max_used_aggr' = RatInt(0)
    /\ most_used_ds_on_most_used_aggr' = None
    /\ ds_overall_average_usage' = RatInt(0)
    /\ moves_done' = 0
    /\ moved_size' = 0
    /\ last_move' = NoMove
    /\ iter_log' = <<>>
    /\ loop_runs' = 0

ReadInventory ==
    /\ vm_info' = VMs(world)
    /\ ds_objs' = DataStoresObjs(world)
    /\ ds_elements' = DataStoresElements(world)
    /\ na_info' = NAs(world)

\* get the vm and ds info from the vcenter and the info from the netapp
FetchForAggr ==
    /\ pc = "fetch_aggr"
    /\ UNCHANGED nanny
    /\ ReadInventory
    /\ ResetLocals
    /\ pc' = "aggr_stats"
    /\ UNCHANGED <<world, args, error>>

\* the ds balancing started on the objects the aggr balancing has worked on
FetchForDs_keeps_inventory ==
    /\ pc = "fetch_ds"
    /\ UNCHANGED nanny
    /\ ResetLocals
    /\ pc' = "ds_stats"
    /\ UNCHANGED <<world, args, error, inventory>>

\* the same again before the ds balancing
FetchForDs ==
    /\ pc = "fetch_ds"
    /\ UNCHANGED nanny
    /\ ReadInventory
    /\ ResetLocals
    /\ pc' = "ds_stats"
    /\ UNCHANGED <<world, args, error>>

(***************************************************************************)
(* vmfs_aggr_balancing                                                     *)
(***************************************************************************)
\* ds_weight = get_aggr_and_ds_stats(na_info, ds_info)
AggrStats ==
    /\ pc = "aggr_stats"
    /\ UNCHANGED nanny
    /\ LET r == get_aggr_and_ds_stats(na_info, ds_elements, ds_objs)
       IN  IF r.error # NoError
           THEN Raise(r.error) /\ UNCHANGED ds_weight
           ELSE /\ ds_weight' = r.ds_weight
                /\ pc' = "aggr_setup"
                /\ UNCHANGED error
    /\ UNCHANGED <<world, args, inventory, max_usage_aggr,
                   size_to_free_on_max_used_aggr, most_used_ds_on_most_used_aggr,
                   ds_overall_average_usage, moves_done, moved_size, last_move,
                   iter_log, loop_runs>>

\* from get_max_usage_aggr to the head of the balancing loop
AggrSetup ==
    /\ pc = "aggr_setup"
    /\ UNCHANGED nanny
    /\ LET m == get_max_usage_aggr(na_info)
           sources == BalancingSourceDs(m.max_usage_aggr, ds_elements, ds_objs,
                                        args.hdd)
           vmfs == sort_by_usage(vmfs_ds(ds_elements, ds_objs, {}), ds_objs,
                                 EmptyWeight)
           Stay == UNCHANGED <<args, ds_elements, max_usage_aggr,
                               size_to_free_on_max_used_aggr,
                               most_used_ds_on_most_used_aggr,
                               ds_overall_average_usage>>
       IN  IF m.error # NoError
           THEN Raise(m.error) /\ Stay
           ELSE IF WithinAutopilotRange(m.max_usage_aggr, m.avg_aggr_usage,
                                        args.autopilot_range)
           THEN \* return False
                /\ pc' = "fetch_ds"
                /\ max_usage_aggr' = m.max_usage_aggr
                /\ size_to_free_on_max_used_aggr' =
                       SizeToFree(m.max_usage_aggr, m.avg_aggr_usage)
                /\ UNCHANGED <<error, args, ds_elements,
                               most_used_ds_on_most_used_aggr,
                               ds_overall_average_usage>>
           ELSE IF None \in Range(sources)
           THEN \* the sort key reads .usage of None
                Raise("AttributeError") /\ Stay
           ELSE IF sources = <<>>
           THEN \* balancing_source_ds[-1]
                Raise("IndexError") /\ Stay
           ELSE /\ max_usage_aggr' = m.max_usage_aggr
                /\ size_to_free_on_max_used_aggr' =
                       SizeToFree(m.max_usage_aggr, m.avg_aggr_usage)
                /\ most_used_ds_on_most_used_aggr' =
                       MostUsedDsOnMostUsedAggr(sources, ds_objs)
                /\ UNCHANGED error
                /\ IF vmfs = <<>>
                   THEN \* no vmfs ds in this vcenter: return
                        /\ pc' = "fetch_ds"
                        /\ ds_elements' = vmfs
                        /\ UNCHANGED <<args, ds_overall_average_usage>>
                   ELSE /\ pc' = "aggr_loop"
                        /\ ds_overall_average_usage' =
                               get_overall_average_usage(vmfs, ds_objs)
                        /\ args' = [args EXCEPT !.ds_denylist =
                               DenylistAfterExtend(@, m.max_usage_aggr)]
                        /\ ds_elements' =
                               vmfs_ds(vmfs, ds_objs,
                                       ExtendedDsDenylist(args.ds_denylist,
                                                          m.max_usage_aggr))
    /\ UNCHANGED <<world, vm_info, ds_objs, na_info, ds_weight, moves_done,
                   moved_size, last_move, iter_log, loop_runs>>

\* one pass through the body of the balancing loop
AggrIter ==
    /\ pc = "aggr_loop"
    /\ UNCHANGED nanny
    /\ loop_runs' = loop_runs + 1
    /\ LET source == ds_objs[most_used_ds_on_most_used_aggr]
           weighted == sort_by_usage(ds_elements, ds_objs, ds_weight)
           target == weighted[Len(weighted)]
           candidates == AggrCandidates(vm_info, source, ds_objs[target], args)
           vm == sort_vms_by_total_disksize(candidates)[1]
           moved == move_shadow_vm_from_ds_to_ds(
                        ds_objs, most_used_ds_on_most_used_aggr, target, vm)
           Break == /\ pc' = "fetch_ds"
                    /\ UNCHANGED <<error, ds_objs, moves_done, moved_size, last_move>>
       IN  IF \/ MaxMovesReached(moves_done, args.max_move_vms)
              \/ EnoughSpaceFreed(moved_size, size_to_free_on_max_used_aggr)
              \/ SourceLowEnough(source.usage, ds_overall_average_usage,
                                 args.autopilot_range)
           THEN Break /\ UNCHANGED ds_elements
           ELSE IF weighted = <<>>
           THEN \* ds_info.elements[-1]
                /\ Raise("IndexError")
                /\ UNCHANGED <<ds_objs, ds_elements, moves_done, moved_size,
                               last_move>>
           ELSE IF candidates = <<>>
           THEN Break /\ ds_elements' = weighted
           ELSE /\ ds_objs' = moved
                /\ last_move' = MoveRecord(ds_objs, most_used_ds_on_most_used_aggr,
                                           target, vm)
                /\ moves_done' = moves_done + 1
                /\ moved_size' = moved_size + get_total_disksize(vm)
                /\ ds_elements' = sort_by_usage(weighted, moved, EmptyWeight)
                /\ UNCHANGED <<pc, error>>
    /\ UNCHANGED <<world, args, vm_info, na_info, ds_weight, max_usage_aggr,
                   size_to_free_on_max_used_aggr, most_used_ds_on_most_used_aggr,
                   ds_overall_average_usage, iter_log>>

(***************************************************************************)
(* vmfs_ds_balancing                                                       *)
(***************************************************************************)
DsStats ==
    /\ pc = "ds_stats"
    /\ UNCHANGED nanny
    /\ LET r == get_aggr_and_ds_stats(na_info, ds_elements, ds_objs)
       IN  IF r.error # NoError
           THEN Raise(r.error) /\ UNCHANGED ds_weight
           ELSE /\ ds_weight' = r.ds_weight
                /\ pc' = "ds_setup"
                /\ UNCHANGED error
    /\ UNCHANGED <<world, args, inventory, max_usage_aggr,
                   size_to_free_on_max_used_aggr, most_used_ds_on_most_used_aggr,
                   ds_overall_average_usage, moves_done, moved_size, last_move,
                   iter_log, loop_runs>>

\* from get_max_usage_aggr to the head of the balancing loop
DsSetup ==
    /\ pc = "ds_setup"
    /\ UNCHANGED nanny
    /\ LET m == get_max_usage_aggr(na_info)
           vmfs == sort_by_usage(vmfs_ds(ds_elements, ds_objs, {}), ds_objs,
                                 EmptyWeight)
       IN  IF m.error # NoError
           THEN /\ Raise(m.error)
                /\ UNCHANGED <<args, ds_elements, max_usage_aggr,
                               ds_overall_average_usage>>
           ELSE /\ max_usage_aggr' = m.max_usage_aggr
                /\ UNCHANGED error
                /\ IF vmfs = <<>>
                   THEN \* no vmfs ds in this vcenter: return
                        /\ pc' = "sleep"
                        /\ ds_elements' = vmfs
                        /\ UNCHANGED <<args, ds_overall_average_usage>>
                   ELSE /\ pc' = "ds_loop"
                        /\ ds_overall_average_usage' =
                               get_overall_average_usage(vmfs, ds_objs)
                        /\ args' = [args EXCEPT !.ds_denylist =
                               DenylistAfterExtend(@, m.max_usage_aggr)]
                        /\ ds_elements' =
                               vmfs_ds(vmfs, ds_objs,
                                       ExtendedDsDenylist(args.ds_denylist,
                                                          m.max_usage_aggr))
    /\ UNCHANGED <<world, vm_info, ds_objs, na_info, ds_weight,
                   size_to_free_on_max_used_aggr, most_used_ds_on_most_used_aggr,
                   moves_done, moved_size, last_move, iter_log, loop_runs>>

\* what an iteration of the ds balancing loop works with, once it has computed
\* vm_maxdisksize: the gaps in usage and in free space between its most and
\* least used ds, their capacities, and vm_maxdisksize
IterRecord(most_used_ds, least_used_ds, a) ==
    [usage_gap |-> RatSub(most_used_ds.usage, least_used_ds.usage),
     free_gap |-> least_used_ds.freespace - most_used_ds.freespace,
     capacities |-> {most_used_ds.capacity, least_used_ds.capacity},
     vm_maxdisksize |-> VmMaxDiskSize(most_used_ds, least_used_ds, a)]

\* one pass through the body of the balancing loop
DsIter ==
    /\ pc = "ds_loop"
    /\ UNCHANGED nanny
    /\ loop_runs' = loop_runs + 1
    /\ LET most_used_ds == ds_elements[1]
           weighted == sort_by_usage(ds_elements, ds_objs, ds_weight)
           least_used_ds == weighted[Len(weighted)]
           on_source == get_shadow_vms(vm_info, ds_objs[most_used_ds].vm_handles)
           candidates == DsCandidates(vm_info, ds_objs[most_used_ds],
                                      ds_objs[least_used_ds], args)
           vm == sort_vms_by_total_disksize(candidates)[1]
           moved == move_shadow_vm_from_ds_to_ds(ds_objs, most_used_ds,
                                                 least_used_ds, vm)
           logged == IF on_source = <<>> THEN iter_log
                     ELSE Append(iter_log,
                                 IterRecord(ds_objs[most_used_ds],
                                            ds_objs[least_used_ds], args))
       IN  IF MaxMovesReached(moves_done, args.max_move_vms)
           THEN /\ pc' = "sleep"
                /\ UNCHANGED <<error, ds_objs, ds_elements, moves_done, last_move,
                               iter_log>>
           ELSE IF ds_elements = <<>>
           THEN \* ds_info.elements[0]
                /\ Raise("IndexError")
                /\ UNCHANGED <<ds_objs, ds_elements, moves_done, last_move,
                               iter_log>>
           ELSE IF candidates = <<>>
           THEN /\ pc' = "sleep"
                /\ ds_elements' = weighted
                /\ iter_log' = logged
                /\ UNCHANGED <<error, ds_objs, moves_done, last_move>>
           ELSE /\ ds_objs' = moved
                /\ last_move' = MoveRecord(ds_objs, most_used_ds, least_used_ds, vm)
                /\ moves_done' = moves_done + 1
                /\ ds_elements' = sort_by_usage(weighted, moved, EmptyWeight)
                /\ iter_log' = logged
                /\ UNCHANGED <<pc, error>>
    /\ UNCHANGED <<world, args, vm_info, na_info, ds_weight, max_usage_aggr,
                   size_to_free_on_max_used_aggr, most_used_ds_on_most_used_aggr,
                   ds_overall_average_usage, moved_size>>

\* time.sleep(60 * int(args.interval)), then the next loop run
Sleep ==
    /\ pc = "sleep"
    /\ UNCHANGED nanny
    /\ pc' = "fetch_aggr"
    /\ UNCHANGED <<world, args, error, inventory, locals>>

Next ==
    \/ FetchForAggr
    \/ AggrStats
    \/ AggrSetup
    \/ AggrIter
    \/ FetchForDs
    \/ DsStats
    \/ DsSetup
    \/ DsIter
    \/ Sleep

Spec == Init /\ [][Next]_vars

(***************************************************************************)
(* vcenter-cleanup.py.  One orphan is followed: a former openstack server  *)
(* with its folder on an eph datastore.  While the vcenter has a vm for    *)
(* the vmx file the id is the instance uuid of the vm, afterwards it is    *)
(* the path of the folder.                                                 *)
(***************************************************************************)
MaxIterations == 2

Uuid == "0a1b2c3d-0000-4000-8000-00000000000a"
EphPath == "[eph1] 0a1b2c3d-0000-4000-8000-00000000000a/"
RenamedEphPath ==
    "[eph1] 0a1b2c3d-0000-4000-8000-00000000000a.renamed_by_vcenter_nanny/"

\* path.endswith(".renamed_by_vcenter_nanny/")
EndsWithRenamed(path) == path = RenamedEphPath

\* the folder as the datastore browser lists it after
\* MoveDatastoreFile_Task(id, id.rstrip('/') + ".renamed_by_vcenter_nanny")
RenamedFolder(path) == IF path = EphPath THEN RenamedEphPath ELSE path

\* to_be_dict.get(id, default)
DictGet(dict, id) == IF id \in DOMAIN dict THEN dict[id] ELSE 0

\* dict[id] = value
DictSet(dict, id, value) ==
    [i \in DOMAIN dict \cup {id} |-> IF i = id THEN value ELSE dict[i]]

init_seen_dict(seen_dict) == [i \in DOMAIN seen_dict |-> 0]

reset_to_be_dict(to_be_dict, seen_dict) ==
    LET unseen == {i \in DOMAIN seen_dict : seen_dict[i] = 0}
    IN  [i \in DOMAIN to_be_dict \cup unseen |->
            IF i \in unseen THEN 0 ELSE to_be_dict[i]]

\* the decision without the dry_run branch
Decision_ignores_dry_run(what_to_do, o) ==
    CASE what_to_do = "suspend_vm" -> "done"
      [] what_to_do = "power_off_vm" -> IF o.power_off THEN "done" ELSE "off"
      [] what_to_do = "unregister_vm" -> IF o.unregister THEN "done" ELSE "off"
      [] what_to_do = "rename_ds_path" -> "done"
      [] what_to_do = "delete_ds_path" -> IF o.delete THEN "done" ELSE "off"

\* what now_or_later does once the counter has reached iterations: "dry_run"
\* (logged only), "done" (the call to the vcenter is made) or "off" (the
\* action is switched off on the command line)
Decision(what_to_do, o) ==
    IF o.dry_run THEN "dry_run"
    ELSE CASE what_to_do = "suspend_vm" -> "done"
           [] what_to_do = "power_off_vm" -> IF o.power_off THEN "done" ELSE "off"
           [] what_to_do = "unregister_vm" -> IF o.unregister THEN "done" ELSE "off"
           [] what_to_do = "rename_ds_path" -> "done"
           [] what_to_do = "delete_ds_path" -> IF o.delete THEN "done" ELSE "off"

\* now_or_later acting again in every run after the counter has reached
\* iterations
now_or_later_repeats(id, to_be_dict, seen_dict, what_to_do, o) ==
    LET count == DictGet(to_be_dict, id)
    IN  [seen_dict |-> DictSet(seen_dict, id, 1),
         to_be_dict |-> IF count <= o.iterations
                        THEN DictSet(to_be_dict, id, count + 1)
                        ELSE to_be_dict,
         kind |-> IF count >= o.iterations THEN Decision(what_to_do, o)
                  ELSE "plan"]

\* now_or_later: [to_be_dict, seen_dict, kind]; kind "plan" while waiting and
\* "none" once the counter is beyond iterations
now_or_later(id, to_be_dict, seen_dict, what_to_do, o) ==
    LET count == DictGet(to_be_dict, id)
    IN  [seen_dict |-> DictSet(seen_dict, id, 1),
         to_be_dict |-> IF count <= o.iterations
                        THEN DictSet(to_be_dict, id, count + 1)
                        ELSE to_be_dict,
         kind |-> IF count > o.iterations THEN "none"
                  ELSE IF count = o.iterations THEN Decision(what_to_do, o)
                  ELSE "plan"]

Whats == {"suspend_vm", "power_off_vm", "unregister_vm", "rename_ds_path",
          "delete_ds_path"}

NoCandidate == [what |-> "", id |-> ""]

\* the call of now_or_later that cleanup_items makes for the orphan, if any
Candidate(v, vcenter_mounted) ==
    IF v.known \/ v.path = "" \/ Uuid \in vcenter_mounted THEN NoCandidate
    ELSE IF v.power_state = "poweredOn" THEN [what |-> "suspend_vm", id |-> Uuid]
    ELSE IF v.power_state = "suspended" THEN [what |-> "power_off_vm", id |-> Uuid]
    ELSE IF v.power_state = "poweredOff" THEN [what |-> "unregister_vm", id |-> Uuid]
    ELSE IF EndsWithRenamed(v.path) THEN [what |-> "delete_ds_path", id |-> v.path]
    ELSE [what |-> "rename_ds_path", id |-> v.path]

\* the vcenter after the call that now_or_later has made
AfterAction(v, what_to_do) ==
    CASE what_to_do = "suspend_vm" -> [v EXCEPT !.power_state = "suspended"]
      [] what_to_do = "power_off_vm" -> [v EXCEPT !.power_state = "poweredOff"]
      [] what_to_do = "unregister_vm" -> [v EXCEPT !.power_state = "none"]
      [] what_to_do = "rename_ds_path" -> [v EXCEPT !.path = RenamedFolder(@)]
      [] what_to_do = "delete_ds_path" -> [v EXCEPT !.path = ""]

NannyOpts ==
    { [iterations |-> i, dry_run |-> d, power_off |-> f, unregister |-> f,
       delete |-> f] : i \in 1..MaxIterations, d \in BOOLEAN, f \in BOOLEAN }

Orphans ==
    { [known |-> k, power_state |-> p, path |-> EphPath, mounted |-> m] :
        k \in BOOLEAN, p \in {"poweredOn", "suspended", "poweredOff", "none"},
        m \in BOOLEAN }

InitCleanup ==
    /\ pc = "nanny_connect"
    /\ error = NoError
    /\ world = <<>>
    /\ args = <<>>
    /\ vm_info = <<>>
    /\ ds_objs = <<>>
    /\ ds_elements = <<>>
    /\ na_info = <<>>
    /\ ds_weight = EmptyWeight
    /\ max_usage_aggr = NoAggr
    /\ size_to_free_on_max_used_aggr = RatInt(0)
    /\ most_used_ds_on_most_used_aggr = None
    /\ ds_overall_average_usage = RatInt(0)
    /\ moves_done = 0
    /\ moved_size = 0
    /\ last_move = NoMove
    /\ iter_log = <<>>
    /\ loop_runs = 0
    /\ opts \in NannyOpts
    /\ vcenter \in Orphans
    /\ vms_to_be_suspended = <<>>
    /\ vms_to_be_poweredoff = <<>>
    /\ vms_to_be_unregistered = <<>>
    /\ vms_seen = <<>>
    /\ files_to_be_deleted = <<>>
    /\ files_to_be_renamed = <<>>
    /\ files_seen = <<>>
    /\ run_log = <<>>
    /\ candidate_runs = [w \in Whats |-> 0]
    /\ runs_since_step = MaxIterations
    /\ performed = [w \in Whats |-> FALSE]
    /\ properties = ""

\* the five to_be dicts and the two seen dicts
dicts == <<vms_to_be_suspended, vms_to_be_poweredoff, vms_to_be_unregistered,
           vms_seen, files_to_be_deleted, files_to_be_renamed, files_seen>>

VmSteps == {"suspend_vm", "power_off_vm", "unregister_vm"}

\* one more run of cleanup_items has returned
RunsAfter(runs) == IF runs < MaxIterations THEN runs + 1 ELSE runs

\* SmartConnect succeeds
Connect ==
    /\ pc = "nanny_connect"
    /\ pc' = "nanny_cleanup"
    /\ UNCHANGED <<error, balancer, nanny>>

\* SmartConnect raises: logged, retried in the next loop run
ConnectFails ==
    /\ pc = "nanny_connect"
    /\ pc' = "nanny_sleep"
    /\ run_log' = <<>>
    /\ UNCHANGED <<error, balancer, opts, vcenter, dicts, candidate_runs,
                   runs_since_step, performed, properties>>

\* cleanup_items returns early: openstack could not be queried
OpenstackFails ==
    /\ pc = "nanny_cleanup"
    /\ pc' = "nanny_sleep"
    /\ run_log' = <<>>
    /\ runs_since_step' = RunsAfter(runs_since_step)
    /\ UNCHANGED <<error, balancer, opts, vcenter, dicts, candidate_runs,
                   performed, properties>>

\* the call now_or_later(id, to_be_dict, seen_dict, what, ...) if the orphan is
\* a candidate for `what` in this run, and no call otherwise
CallFor(c, what, to_be_dict, seen_dict) ==
    IF c.what = what
    THEN now_or_later(c.id, to_be_dict, seen_dict, what, opts)
    ELSE [seen_dict |-> seen_dict, to_be_dict |-> to_be_dict, kind |-> "none"]

\* the list that collect_properties returns: one entry per vm, here reduced
\* to the uuids of the disks the vm has mounted; the empty list when
\* RetrieveContents has raised ManagedObjectNotFound
collect_properties(v, outcome) ==
    IF outcome = "retrieved" /\ v.mounted THEN <<{Uuid}>> ELSE <<>>

\* vcenter_mounted as cleanup_items builds it from data
VcenterMounted(data) == UNION {data[k] : k \in DOMAIN data}

\* a whole run of cleanup_items, from collect_properties to reset_to_be_dict
CleanupRun(outcome) ==
    /\ pc = "nanny_cleanup"
    /\ properties' = outcome
    /\ LET data == collect_properties(vcenter, outcome)
           c == Candidate(vcenter, VcenterMounted(data))
           vms_seen0 == init_seen_dict(vms_seen)
           files_seen0 == init_seen_dict(files_seen)
           suspend == CallFor(c, "suspend_vm", vms_to_be_suspended, vms_seen0)
           poweroff == CallFor(c, "power_off_vm", vms_to_be_poweredoff,
                               suspend.seen_dict)
           unregister == CallFor(c, "unregister_vm", vms_to_be_unregistered,
                                 poweroff.seen_dict)
           delete == CallFor(c, "delete_ds_path", files_to_be_deleted, files_seen0)
           rename == CallFor(c, "rename_ds_path", files_to_be_renamed,
                             delete.seen_dict)
           kind == CASE c.what = "suspend_vm" -> suspend.kind
                     [] c.what = "power_off_vm" -> poweroff.kind
                     [] c.what = "unregister_vm" -> unregister.kind
                     [] c.what = "delete_ds_path" -> delete.kind
                     [] c.what = "rename_ds_path" -> rename.kind
                     [] OTHER -> "none"
       IN  /\ vms_seen' = unregister.seen_dict
           /\ files_seen' = rename.seen_dict
           /\ vms_to_be_suspended' =
                  reset_to_be_dict(suspend.to_be_dict, unregister.seen_dict)
           /\ vms_to_be_poweredoff' =
                  reset_to_be_dict(poweroff.to_be_dict, unregister.seen_dict)
           /\ vms_to_be_unregistered' =
                  reset_to_be_dict(unregister.to_be_dict, unregister.seen_dict)
           /\ files_to_be_deleted' =
                  reset_to_be_dict(delete.to_be_dict, rename.seen_dict)
           /\ files_to_be_renamed' =
                  reset_to_be_dict(rename.to_be_dict, rename.seen_dict)
           /\ vcenter' = IF kind = "done" THEN AfterAction(vcenter, c.what)
                         ELSE vcenter
           /\ run_log' = IF c = NoCandidate THEN <<>>
                         ELSE <<[what |-> c.what, id |-> c.id, kind |-> kind,
                                 runs_before |-> candidate_runs[c.what],
                                 power_state |-> vcenter.power_state,
                                 since_step |-> runs_since_step,
                                 performed_before |-> performed[c.what]]>>
           /\ candidate_runs' =
                  [w \in Whats |->
                      IF w # c.what THEN 0
                      ELSE IF candidate_runs[w] < opts.iterations
                      THEN candidate_runs[w] + 1
                      ELSE candidate_runs[w]]
           /\ runs_since_step' = IF kind = "done" /\ c.what \in VmSteps THEN 0
                                 ELSE RunsAfter(runs_since_step)
           /\ performed' = [w \in Whats |->
                                IF w # c.what THEN FALSE
                                ELSE performed[w] \/ kind = "done"]
    /\ pc' = "nanny_sleep"
    /\ UNCHANGED <<error, balancer, opts>>

\* a run of cleanup_items in which the properties of the vms are retrieved
CleanupItems == CleanupRun("retrieved")

\* a run of cleanup_items in which collect_properties catches
\* ManagedObjectNotFound and returns its empty list
PropertiesFail == CleanupRun("failed")

\* time.sleep(60 * int(interval))
NannySleep ==
    /\ pc = "nanny_sleep"
    /\ pc' = "nanny_connect"
    /\ UNCHANGED <<error, balancer, nanny>>

\* between two runs somebody else changes the power state of the vm
PowerStateChanges ==
    /\ pc = "nanny_sleep"
    /\ vcenter.power_state # "none"
    /\ \E p \in {"poweredOn", "suspended", "poweredOff"} \ {vcenter.power_state} :
          vcenter' = [vcenter EXCEPT !.power_state = p]
    /\ UNCHANGED <<pc, error, balancer, opts, dicts, run_log, candidate_runs,
                   runs_since_step, performed, properties>>

\* between two runs openstack gets to know the uuid, or forgets it
OpenstackChanges ==
    /\ pc = "nanny_sleep"
    /\ vcenter' = [vcenter EXCEPT !.known = ~@]
    /\ UNCHANGED <<pc, error, balancer, opts, dicts, run_log, candidate_runs,
                   runs_since_step, performed, properties>>

NextCleanup ==
    \/ Connect
    \/ ConnectFails
    \/ OpenstackFails
    \/ CleanupItems
    \/ PropertiesFail
    \/ NannySleep
    \/ PowerStateChanges
    \/ OpenstackChanges

SpecCleanup == InitCleanup /\ [][NextCleanup]_vars

(***************************************************************************)
(* Properties                                                              *)
(***************************************************************************)
RECURSIVE SumOver(_, _)
SumOver(S, f) ==
    IF S = {} THEN 0
    ELSE LET x == CHOOSE y \in S : TRUE
         IN  f[x] + SumOver(S \ {x}, f)

InPass == pc \in {"aggr_loop", "ds_loop"}

\* this step is a simulated move
IsMove == moves_done' = moves_done + 1

\* C1: every DS object's usage is (1 - freespace / capacity) * 100, before and
\* after every simulated move
C1_UsageRecomputed ==
    \A d \in DOMAIN ds_objs :
        ds_objs[d].usage = UsageOf(ds_objs[d].freespace, ds_objs[d].capacity)

C1_Witness == InPass /\ moves_done = 2 /\ last_move.vm # None

\* C2 as stated: a move takes the vm size off the source's free space and adds
\* it to the target's
C2_AsStated ==
    [][IsMove =>
        /\ ds_objs'[last_move'.source].freespace =
               ds_objs[last_move'.source].freespace - last_move'.size
        /\ ds_objs'[last_move'.target].freespace =
               ds_objs[last_move'.target].freespace + last_move'.size]_vars

\* C2 amended: a move adds the vm size to the source's free space and takes it
\* off the target's
C2_SourceGainsTargetLoses ==
    [][IsMove =>
        /\ ds_objs'[last_move'.source].freespace =
               ds_objs[last_move'.source].freespace + last_move'.size
        /\ ds_objs'[last_move'.target].freespace =
               ds_objs[last_move'.target].freespace - last_move'.size]_vars

C2_Witness == InPass /\ last_move.vm # None /\ last_move.size > 0

\* C3: the free space summed over all DS objects stays what the snapshot
\* reported, after any sequence of moves
C3_TotalFreespaceKept ==
    ds_objs # <<>> =>
        SumOver(DOMAIN ds_objs, [d \in DOMAIN ds_objs |-> ds_objs[d].freespace])
          = SumOver(DOMAIN ds_objs,
                    [d \in DOMAIN ds_objs |-> world.datastores[d].freeSpace])

C3_Witness == pc = "ds_loop" /\ moves_done = 2

\* C4: no pass of either balancer does more than max_move_vms + 1 moves
C4_AtMostMaxPlusOneMoves == moves_done <= args.max_move_vms + 1

C4_Witness ==
    /\ pc = "ds_loop"
    /\ args.max_move_vms = MaxMoveVmsBound
    /\ moves_done = args.max_move_vms + 1

C6_TargetNotDenied ==
    (InPass /\ last_move.vm # None) =>
        /\ ds_objs[last_move.target].name \notin args.ds_denylist
        /\ ds_objs[last_move.target].name \notin LunNames(max_usage_aggr)

C6_Witness ==
    /\ pc = "ds_loop"
    /\ last_move.vm # None
    /\ DsName2 \in args.ds_denylist
    /\ \E k \in DOMAIN world.luns : world.luns[k].name = DsName2

\* C7 as stated: in a ds balancing pass a later iteration with a narrower usage
\* gap between most and least used ds has no larger vm_maxdisksize
C7_AsStated ==
    \A i, j \in DOMAIN iter_log :
        (i < j /\ RatLt(iter_log[j].usage_gap, iter_log[i].usage_gap)) =>
            RatLe(iter_log[j].vm_maxdisksize, iter_log[i].vm_maxdisksize)

\* the most and least used ds of iterations i and j all have one capacity
SameCapacity(i, j) ==
    /\ iter_log[i].capacities = iter_log[j].capacities
    /\ Cardinality(iter_log[i].capacities) = 1

\* C7 amended: in every iteration of a ds balancing pass vm_maxdisksize is
\* min((least_used.free - most_used.free) / 2, flexvol_volume_max_size), and a
\* later iteration with a narrower gap in free space between least and most
\* used ds has no larger vm_maxdisksize; a narrower usage gap has that effect
\* when the most and least used ds of both iterations all have one capacity
C7_DampingMonotoneInFreeGap ==
    /\ \A i \in DOMAIN iter_log :
           iter_log[i].vm_maxdisksize =
               RatMin(Rat(iter_log[i].free_gap, 2 * GiB),
                      RatInt(args.flexvol_volume_max_size))
    /\ \A i, j \in DOMAIN iter_log :
           (i < j /\ \/ iter_log[j].free_gap < iter_log[i].free_gap
                     \/ /\ SameCapacity(i, j)
                        /\ RatLt(iter_log[j].usage_gap, iter_log[i].usage_gap)) =>
               RatLe(iter_log[j].vm_maxdisksize, iter_log[i].vm_maxdisksize)

C7_Witness ==
    \E i, j \in DOMAIN iter_log :
        /\ i < j
        /\ SameCapacity(i, j)
        /\ RatLt(iter_log[j].usage_gap, iter_log[i].usage_gap)
        /\ iter_log[j].free_gap < iter_log[i].free_gap
        /\ RatLt(iter_log[j].vm_maxdisksize, iter_log[i].vm_maxdisksize)

\* get_aggr_and_ds_stats has run in this loop run: it returned or it raised
StatsDone ==
    \/ pc \in {"aggr_setup", "ds_setup"}
    \/ pc = "crashed" /\ error = "ZeroDivisionError"

\* the ds objects that carry the name of a LUN of aggregate aggr
MatchedDs(aggr) ==
    {get_by_name(ds_elements, ds_objs, aggr.luns[l].name) :
        l \in DOMAIN aggr.luns} \ {None}

\* C8 as stated: once get_aggr_and_ds_stats has run, for every aggregate P and
\* every LUN of P that carries the name of a ds D (of non-zero usage) the
\* weight map has the entry weight[D.name] = P.usage / D.usage
C8_AsStated ==
    StatsDone =>
        \A k \in DOMAIN na_info : \A d \in MatchedDs(na_info[k]) :
            ds_objs[d].used # 0 =>
                /\ ds_objs[d].name \in DOMAIN ds_weight
                /\ ds_weight[ds_objs[d].name] =
                       RatDiv(RatInt(na_info[k].usage), ds_objs[d].usage)

\* C9 as stated: when no ds that a LUN names is empty, get_aggr_and_ds_stats
\* raises nothing, whichever LUNs match no ds, and every key of the weight map
\* is the name of a ds
C9_AsStated ==
    StatsDone =>
        /\ (\A k \in DOMAIN na_info : \A d \in MatchedDs(na_info[k]) :
                ds_objs[d].used # 0) => pc # "crashed"
        /\ DOMAIN ds_weight \subseteq {ds_objs[d].name : d \in DOMAIN ds_objs}

\* the datastore that plays the given role in scenario A
ScenarioDs(role) ==
    CHOOSE i \in DOMAIN world.datastores :
        world.datastores[i].freeSpace = ScenarioFree(role)

\* usage * weight of that datastore at the start of the pass
ScenarioKey(role) ==
    RatMul(DS(world.datastores[ScenarioDs(role)]).usage,
           WeightOf(ds_weight, world.datastores[ScenarioDs(role)].name))

\* the pass has made exactly one move, of the 50 gb vm from X to Z, and X ends
\* at 85% and Z at 45% usage
ScenarioOutcome ==
    /\ moves_done = 1
    /\ last_move.vm = 1
    /\ last_move.size = 50 * GiB
    /\ last_move.source = ScenarioDs("X")
    /\ last_move.target = ScenarioDs("Z")
    /\ ds_objs[ScenarioDs("X")].usage = RatInt(85)
    /\ ds_objs[ScenarioDs("Z")].usage = RatInt(45)

\* C10 as stated: in scenario A the ds balancing pass ends with one move of the
\* 50 gb vm from X to Z, X at 85% and Z at 45% usage
C10_AsStated ==
    (world \in ScenarioWorlds /\ pc = "sleep") => ScenarioOutcome

\* C10 amended: in scenario A, when usage * weight of Z is not larger than that
\* of X and of Y, the ds balancing pass ends with one move of the 50 gb vm from
\* X to Z, X at 85% and Z at 45% usage
C10_ScenarioA ==
    (/\ world \in ScenarioWorlds
     /\ pc = "sleep"
     /\ RatLe(ScenarioKey("Z"), ScenarioKey("X"))
     /\ RatLe(ScenarioKey("Z"), ScenarioKey("Y"))) => ScenarioOutcome

C10_Witness ==
    /\ world \in ScenarioWorlds
    /\ pc = "sleep"
    /\ RatLt(ScenarioKey("Z"), ScenarioKey("Y"))
    /\ world.datastores[ScenarioDs("Z")].name \in DOMAIN ds_weight
    /\ ScenarioOutcome

\* the usage the snapshot of this loop run reported for ds object d
SnapshotUsage(d) == DS(world.datastores[d]).usage

\* every ds the ds balancing may use lies within [min_usage, max_usage]
AllWithinThresholds ==
    \A d \in Range(ds_elements) :
        /\ RatLe(MinUsage(args, ds_overall_average_usage), SnapshotUsage(d))
        /\ RatLe(SnapshotUsage(d), MaxUsage(args, ds_overall_average_usage))

\* C11 as stated: when every eligible ds has a usage within
\* [min_usage, max_usage], the ds balancing makes no move
C11_AsStated ==
    (pc \in {"ds_loop", "sleep"} /\ AllWithinThresholds) => moves_done = 0

\* the usage of the most used aggregate of this loop run is below the capacity
\* weighted average usage of all aggregates plus autopilot_range
MaxAggrBelowRange ==
    /\ na_info # <<>>
    /\ RatLt(RatInt(get_max_usage_aggr(na_info).max_usage_aggr.usage),
             RatAdd(get_max_usage_aggr(na_info).avg_aggr_usage,
                    RatInt(args.autopilot_range)))

\* C12: the aggr balancing enters its balancing loop only when the usage of the
\* most used aggregate is at least the average plus autopilot_range; otherwise
\* it returns with no move and with the ds objects and their list as fetched
C12_ProceedsOnlyAboveRange ==
    /\ pc = "aggr_loop" => ~MaxAggrBelowRange
    /\ (pc = "fetch_ds" /\ MaxAggrBelowRange) =>
           /\ moves_done = 0
           /\ last_move = NoMove
           /\ ds_elements = DataStoresElements(world)
           /\ ds_objs = DataStoresObjs(world)

C12_Witness ==
    /\ pc = "fetch_ds"
    /\ MaxAggrBelowRange
    /\ get_max_usage_aggr(na_info).max_usage_aggr.name = "aggr2"
    /\ world.datastores[4].vm # {}

\* C13: a loop run goes fetch, aggr balancing, fetch again, ds balancing,
\* sleep, and the ds balancing starts on objects built from what the vcenter
\* reports, with none of the moves of the aggr balancing in them
C13_OrderAndFreshInventory ==
    [][/\ pc' = "aggr_stats" => pc = "fetch_aggr"
       /\ pc' = "aggr_setup" => pc = "aggr_stats"
       /\ pc' = "aggr_loop" => pc \in {"aggr_setup", "aggr_loop"}
       /\ pc' = "fetch_ds" => pc \in {"aggr_setup", "aggr_loop"}
       /\ pc' = "ds_stats" =>
              /\ pc = "fetch_ds"
              /\ vm_info' = VMs(world)
              /\ ds_objs' = DataStoresObjs(world)
              /\ ds_elements' = DataStoresElements(world)
              /\ na_info' = NAs(world)
              /\ moves_done' = 0
       /\ pc' = "ds_setup" => pc = "ds_stats"
       /\ pc' = "ds_loop" => pc \in {"ds_setup", "ds_loop"}
       /\ pc' = "sleep" => pc \in {"ds_setup", "ds_loop"}
       /\ pc' = "fetch_aggr" => pc = "sleep"]_vars

\* the aggr balancing has made moves and the second fetch is due
C13_Witness ==
    /\ pc = "fetch_ds"
    /\ moves_done > 0
    /\ ds_objs # DataStoresObjs(world)

\* C14 as stated: a loop run whose aggr balancing has made a move does not go
\* on to the ds balancing
C14_AsStated ==
    [][(pc = "fetch_ds" /\ moves_done > 0) => pc' # "ds_stats"]_vars

\* C18 as stated: no pass of either balancer does more than max_move_vms moves
C18_AsStated == moves_done <= args.max_move_vms

\* C19 as stated: after every move of the ds balancing the target has at least
\* min_freespace gb of free space
C19_AsStated ==
    (pc = "ds_loop" /\ last_move.vm # None) =>
        ds_objs[last_move.target].freespace >= args.min_freespace * GiB

\* C15 as stated: a loop run whose fetch reports no datastore or no aggregate
\* does not end the process
C15_AsStated ==
    (world.datastores = <<>> \/ world.aggrs = <<>>) => pc # "crashed"

\* the most used aggregate of this loop run
FetchedMaxAggr == get_max_usage_aggr(na_info).max_usage_aggr

\* every vmfs ds is on the deny list, configured or derived
AllDsDenied ==
    /\ na_info # <<>>
    /\ ds_objs # <<>>
    /\ \A d \in DOMAIN ds_objs :
           ds_objs[d].name \in ExtendedDsDenylist(args.ds_denylist, FetchedMaxAggr)

\* C16 as stated: a pass in which the deny list leaves no ds to move to ends
\* without an exception
C16_AsStated == AllDsDenied => pc # "crashed"

\* the LUNs of aggregate aggr the aggr balancing takes source ds from
SourceLuns(aggr) ==
    SelectSeq(aggr.luns,
              LAMBDA lun : lun.type = "vmfs" /\ LunNameMatches(args.hdd, lun.name))

\* C17 as stated: a LUN of the most used aggregate that carries the name of no
\* ds, and a most used aggregate without a LUN of the chosen class, do not end
\* the aggr balancing with an exception
C17_AsStated ==
    /\ (/\ na_info # <<>>
        /\ \E k \in DOMAIN SourceLuns(FetchedMaxAggr) :
               get_by_name(ds_elements, ds_objs,
                           SourceLuns(FetchedMaxAggr)[k].name) = None)
           => ~(pc = "crashed" /\ error = "AttributeError")
    /\ (na_info # <<>> /\ SourceLuns(FetchedMaxAggr) = <<>>)
           => ~(pc = "crashed" /\ error = "IndexError")

\* C20 as stated: an action is performed on an id only in a run before which
\* the id has been a candidate for that action in each of the `iterations`
\* runs immediately before
C20_AsStated ==
    \A k \in DOMAIN run_log :
        run_log[k].kind = "done" => run_log[k].runs_before >= opts.iterations

\* C21: with --dry-run no run issues a suspend, power-off, unregister, rename
\* or delete call: the run leaves the vm and its folder as they are and logs
\* the action as dry_run
C21_DryRunIssuesNoCall ==
    [][(opts.dry_run /\ pc = "nanny_cleanup") =>
        /\ vcenter' = vcenter
        /\ \A k \in DOMAIN run_log' : run_log'[k].kind \in {"plan", "dry_run", "none"}]_vars

C21_Witness ==
    /\ opts.dry_run
    /\ pc = "nanny_sleep"
    /\ \E k \in DOMAIN run_log : run_log[k].kind = "dry_run"

\* the ds objects that carry the name of a vmfs LUN of the chosen class on
\* the most used aggregate
NamedBySourceLuns ==
    {d \in DOMAIN ds_objs :
        \E k \in DOMAIN SourceLuns(max_usage_aggr) :
            SourceLuns(max_usage_aggr)[k].name = ds_objs[d].name}

\* C22: throughout the loop of an aggr balancing pass the source stays the ds
\* chosen before the loop; every move takes its vm from that ds, which is among
\* the ds named by the vmfs LUNs of the chosen class on the most used aggregate
\* and had the highest usage of them when the pass started
C22_OneFixedSource ==
    [][pc = "aggr_loop" =>
        /\ most_used_ds_on_most_used_aggr' = most_used_ds_on_most_used_aggr
        /\ IsMove =>
            /\ last_move'.source = most_used_ds_on_most_used_aggr
            /\ most_used_ds_on_most_used_aggr \in NamedBySourceLuns
            /\ \A d \in NamedBySourceLuns :
                   RatLe(SnapshotUsage(d),
                         SnapshotUsage(most_used_ds_on_most_used_aggr))]_vars

\* a move from the source made when another of those ds was more used
C22_Witness ==
    /\ pc = "aggr_loop"
    /\ last_move.vm # None
    /\ \E d \in NamedBySourceLuns \ {most_used_ds_on_most_used_aggr} :
           RatLt(last_move.source_usage_before, ds_objs[d].usage)

\* the ds a pass may move to: vmfs ds of the chosen class that are neither on
\* the configured deny list nor named by a LUN of the most used aggregate
Eligible ==
    {d \in DOMAIN ds_objs :
        /\ MatchesVmfsSsd(ds_objs[d].name)
        /\ ds_objs[d].name \notin args.ds_denylist
        /\ ds_objs[d].name \notin LunNames(max_usage_aggr)}

\* usage times weight of ds object d, the weight being 1 without an entry
WeightedUsage(d) ==
    RatMul(ds_objs[d].usage,
           IF ds_objs[d].name \in DOMAIN ds_weight
           THEN ds_weight[ds_objs[d].name] ELSE RatInt(1))

\* C23: the target of every move of either balancer is an eligible ds, and no
\* eligible ds has a smaller usage times weight in the state before the move
C23_TargetLeastWeightedUsage ==
    [][(InPass /\ IsMove) =>
        /\ last_move'.target \in Eligible
        /\ \A d \in Eligible :
               RatLe(WeightedUsage(last_move'.target), WeightedUsage(d))]_vars

\* a move to a target that was not the eligible ds of lowest usage
C23_Witness ==
    /\ InPass
    /\ last_move.vm # None
    /\ \E d \in Eligible \ {last_move.source, last_move.target} :
           RatLt(ds_objs[d].usage, last_move.target_usage_before)

\* C24: every move of the aggr balancing takes a vm of at least
\* aggr_volume_min_size and at most min(target free space - min_freespace,
\* aggr_volume_max_size), and leaves the target with at least min_freespace
C24_AggrMoveKeepsFloor ==
    [][(pc = "aggr_loop" /\ IsMove) =>
        /\ args.aggr_volume_min_size * GiB <= last_move'.size
        /\ last_move'.size <= args.aggr_volume_max_size * GiB
        /\ last_move'.size <=
               ds_objs[last_move'.target].freespace - args.min_freespace * GiB
        /\ ds_objs'[last_move'.target].freespace >= args.min_freespace * GiB]_vars

\* a move that leaves the target with exactly the floor
C24_Witness ==
    /\ pc = "aggr_loop"
    /\ last_move.vm # None
    /\ args.min_freespace > 0
    /\ ds_objs[last_move.target].freespace = args.min_freespace * GiB

\* the source of the iteration that starts in this state
IterSource ==
    IF pc = "aggr_loop" THEN most_used_ds_on_most_used_aggr ELSE ds_elements[1]

\* the target of the iteration that starts in this state
IterTarget ==
    LET weighted == sort_by_usage(ds_elements, ds_objs, ds_weight)
    IN  weighted[Len(weighted)]

\* the handles of the candidates of the iteration that starts in this state
IterCandidates ==
    LET found == IF pc = "aggr_loop"
                 THEN AggrCandidates(vm_info, ds_objs[IterSource],
                                     ds_objs[IterTarget], args)
                 ELSE DsCandidates(vm_info, ds_objs[IterSource],
                                   ds_objs[IterTarget], args)
    IN  {found[k].handle : k \in DOMAIN found}

\* C25: the vm moved in an iteration of either balancer is on the source of
\* the iteration and is a candidate; no candidate has a larger total disk
\* size, and of the candidates of that size it is the first in the vm snapshot
C25_LargestCandidateMoved ==
    [][(InPass /\ IsMove) =>
        /\ last_move'.source = IterSource
        /\ last_move'.vm \in ds_objs[IterSource].vm_handles
        /\ last_move'.vm \in IterCandidates
        /\ last_move'.size = get_total_disksize(vm_info[last_move'.vm])
        /\ \A h \in IterCandidates :
               /\ get_total_disksize(vm_info[h]) <= last_move'.size
               /\ get_total_disksize(vm_info[h]) = last_move'.size =>
                      last_move'.vm <= h]_vars

\* a move of one of two shadow vms of the same size on the source
C25_Witness ==
    /\ InPass
    /\ last_move.vm # None
    /\ \E h \in ds_objs[last_move.source].vm_handles \ {last_move.vm} :
           get_total_disksize(vm_info[h]) = last_move.size

\* C26: in every iteration of the ds balancing that gets to choose a source,
\* the source is an eligible ds and no eligible ds has a higher usage at the
\* start of the iteration; a move of the iteration takes its vm from there
C26_SourceMostUsedEligible ==
    [][(/\ pc = "ds_loop"
        /\ ~MaxMovesReached(moves_done, args.max_move_vms)
        /\ ds_elements # <<>>) =>
        /\ ds_elements[1] \in Eligible
        /\ \A d \in Eligible :
               RatLe(ds_objs[d].usage, ds_objs[ds_elements[1]].usage)
        /\ IsMove => last_move'.source = ds_elements[1]]_vars

\* after a move another ds has become the most used one
C26_Witness ==
    /\ pc = "ds_loop"
    /\ last_move.vm # None
    /\ ~MaxMovesReached(moves_done, args.max_move_vms)
    /\ ds_elements[1] # last_move.source
    /\ RatLt(ds_objs[last_move.source].usage, ds_objs[ds_elements[1]].usage)

\* C27: every move of the ds balancing takes a vm of at most half the gap in
\* free space between target and source and of at most
\* flexvol_volume_max_size, and leaves the target with no less free space
\* than the source
C27_DsMoveNoOvershoot ==
    [][(pc = "ds_loop" /\ IsMove) =>
        /\ 2 * last_move'.size <=
               ds_objs[last_move'.target].freespace
                   - ds_objs[last_move'.source].freespace
        /\ last_move'.size <= args.flexvol_volume_max_size * GiB
        /\ ds_objs'[last_move'.target].freespace >=
               ds_objs'[last_move'.source].freespace]_vars

\* a move that leaves target and source with the same free space
C27_Witness ==
    /\ pc = "ds_loop"
    /\ last_move.vm # None
    /\ last_move.size > 0
    /\ last_move.source # last_move.target
    /\ ds_objs[last_move.target].freespace = ds_objs[last_move.source].freespace

\* (max aggr usage - capacity weighted average aggr usage) * max aggr
\* capacity / 100, from the aggregates as fetched
PassSizeToFree ==
    LET cap == SumSeq([k \in DOMAIN na_info |-> na_info[k].capacity])
        used100 == SumSeq([k \in DOMAIN na_info |->
                              na_info[k].usage * na_info[k].capacity])
    IN  RatMul(RatSub(RatInt(max_usage_aggr.usage), Rat(used100, cap)),
               Rat(max_usage_aggr.capacity, 100))

\* C28: a move of the aggr balancing is made only with at most max_move_vms
\* moves done, at most size_to_free moved, and the source at a usage of at
\* least the average ds usage - 4 * autopilot_range; the size moved in a pass
\* stays within size_to_free plus the size of the last vm moved
C28_AggrMoveOnlyBeforeStop ==
    [][(pc = "aggr_loop" /\ IsMove) =>
        /\ moves_done <= args.max_move_vms
        /\ size_to_free_on_max_used_aggr = PassSizeToFree
        /\ RatLe(RatInt(moved_size), PassSizeToFree)
        /\ RatLe(RatSub(ds_overall_average_usage, RatInt(4 * args.autopilot_range)),
                 ds_objs[most_used_ds_on_most_used_aggr].usage)
        /\ moved_size' = moved_size + last_move'.size
        /\ RatLe(RatInt(moved_size'),
                 RatAdd(PassSizeToFree, RatInt(last_move'.size)))]_vars

\* a pass that has moved more than size_to_free, with a shadow vm left on the
\* source
C28_Witness ==
    /\ pc = "aggr_loop"
    /\ last_move.vm # None
    /\ RatLt(size_to_free_on_max_used_aggr, RatInt(moved_size))
    /\ ds_objs[most_used_ds_on_most_used_aggr].vm_handles # {}

\* C29: every iteration of the balancing loop of either balancer leaves the
\* loop or makes one move and counts it, and no pass starts more than
\* max_move_vms + 2 iterations
C29_LoopExitsWithinBound ==
    [][InPass =>
        /\ loop_runs' = loop_runs + 1
        /\ loop_runs' <= args.max_move_vms + 2
        /\ \/ ~InPass'
           \/ /\ pc' = pc
              /\ moves_done' = moves_done + 1
              /\ last_move'.vm # None]_vars

\* a pass left in its iteration number max_move_vms + 2
C29_Witness ==
    /\ pc \in {"fetch_ds", "sleep"}
    /\ args.max_move_vms = MaxMoveVmsBound
    /\ loop_runs = args.max_move_vms + 2

\* C30: a move changes nothing but freespace, usage and vm_handles of its
\* source and its target: the other ds objects, every name, capacity and
\* `used`, the vms, the aggregates with their flexvols and LUNs, the snapshot
\* and the command line stay as they are, and ds_weight stays throughout the
\* loop what get_aggr_and_ds_stats made of the fetched inventory
C30_MoveFrame ==
    [][InPass =>
        /\ ds_weight' = ds_weight
        /\ ds_weight = get_aggr_and_ds_stats(na_info, DataStoresElements(world),
                                             DataStoresObjs(world)).ds_weight
        /\ IsMove =>
            /\ DOMAIN ds_objs' = DOMAIN ds_objs
            /\ \A d \in DOMAIN ds_objs :
                   /\ d \notin {last_move'.source, last_move'.target} =>
                          ds_objs'[d] = ds_objs[d]
                   /\ ds_objs'[d].name = ds_objs[d].name
                   /\ ds_objs'[d].capacity = ds_objs[d].capacity
                   /\ ds_objs'[d].used = ds_objs[d].used
            /\ Range(ds_elements') = Range(ds_elements)
            /\ UNCHANGED <<world, args, vm_info, na_info, max_usage_aggr,
                           size_to_free_on_max_used_aggr,
                           most_used_ds_on_most_used_aggr,
                           ds_overall_average_usage>>]_vars

\* after a move `used` of the target is no longer capacity - freespace
C30_Witness ==
    /\ InPass
    /\ last_move.vm # None
    /\ last_move.source # last_move.target
    /\ ds_objs[last_move.target].used #
           ds_objs[last_move.target].capacity - ds_objs[last_move.target].freespace
    /\ ds_objs[last_move.source].used #
           ds_objs[last_move.source].capacity - ds_objs[last_move.source].freespace

\* C31 as stated: no step of a balancing pass changes the configured deny
\* list args.ds_denylist
C31_AsStated == [][args'.ds_denylist = args.ds_denylist]_vars

\* the ds objects that hold vm handle h
HoldersOf(objs, h) == {d \in DOMAIN objs : h \in objs[d].vm_handles}

\* the vms that are not on the ds the snapshot reported them on
Displaced(objs) ==
    {h \in DOMAIN vm_info :
        \E d \in DOMAIN objs :
            h \in objs[d].vm_handles /\ h \notin world.datastores[d].vm}

\* C32: throughout a pass every shadow vm is on exactly one ds; a move takes
\* the vm off its source and puts it on its target, and in an aggr balancing
\* pass every move takes a vm that no earlier move of the pass has taken
C32_OneDsPerVm ==
    [][InPass =>
        /\ \A h \in DOMAIN vm_info :
               /\ Cardinality(HoldersOf(ds_objs, h)) = 1
               /\ Cardinality(HoldersOf(ds_objs', h)) = 1
        /\ IsMove =>
            /\ HoldersOf(ds_objs, last_move'.vm) = {last_move'.source}
            /\ HoldersOf(ds_objs', last_move'.vm) = {last_move'.target}
            /\ last_move'.source # last_move'.target
            /\ pc = "aggr_loop" =>
                   /\ last_move'.vm \notin Displaced(ds_objs)
                   /\ Cardinality(Displaced(ds_objs')) = moves_done']_vars

\* an aggr balancing pass that has moved both shadow vms
C32_Witness ==
    /\ pc = "aggr_loop"
    /\ moves_done = 2
    /\ Cardinality(Displaced(ds_objs)) = 2

\* the name is of the class --hdd selects
OfSelectedClass(name) == IF args.hdd THEN MatchesHdd(name) ELSE MatchesSsd(name)

\* C33 as stated: source and target of every move of the aggr balancing are
\* ds of the class the command line selects, hdd with --hdd and ssd without
C33_AsStated ==
    (pc = "aggr_loop" /\ last_move.vm # None) =>
        /\ OfSelectedClass(ds_objs[last_move.source].name)
        /\ OfSelectedClass(ds_objs[last_move.target].name)

\* the sum over all ds objects of the square of the free space
SumSquaredFreespace(objs) ==
    SumOver(DOMAIN objs,
            [d \in DOMAIN objs |-> objs[d].freespace * objs[d].freespace])

\* C34: with vm sizes positive, every move of the ds balancing has a target
\* other than its source and makes the sum of the squared free spaces
\* strictly smaller, so no placement of the vms comes back within the pass
\* and none is the placement the pass started from
C34_DsPassNoOscillation ==
    [][(pc = "ds_loop" /\ IsMove) =>
        /\ last_move'.size > 0
        /\ last_move'.source # last_move'.target
        /\ SumSquaredFreespace(ds_objs') < SumSquaredFreespace(ds_objs)
        /\ Displaced(ds_objs') # {}]_vars

\* a ds balancing pass with a second move that takes its vm from another ds
\* than the first
C34_Witness ==
    /\ pc = "ds_loop"
    /\ moves_done = 2
    /\ Cardinality(Displaced(ds_objs)) = 2
    /\ \E h \in Displaced(ds_objs) \ {last_move.vm} :
           h \notin world.datastores[last_move.source].vm

\* 0 <= freespace <= capacity for every ds object
FreespaceWithinCapacity(objs) ==
    \A d \in DOMAIN objs :
        0 <= objs[d].freespace /\ objs[d].freespace <= objs[d].capacity

\* C35 as stated: with 0 <= freespace <= capacity for every ds at the start of
\* a pass, the same holds after every move of the pass
C35_AsStated ==
    (InPass /\ FreespaceWithinCapacity(DataStoresObjs(world))) =>
        FreespaceWithinCapacity(ds_objs)

\* in the snapshot the disks of the vms on a ds add up to no more than the
\* space used on it
DisksWithinUsed ==
    \A d \in DOMAIN world.datastores :
        SumOver(world.datastores[d].vm,
                [h \in DOMAIN world.vms |-> SumSeq(world.vms[h].disks)])
            <= world.datastores[d].capacity - world.datastores[d].freeSpace

\* C35 amended: with 0 <= freespace <= capacity for every ds at the start of a
\* pass, and the disks of the vms on every ds adding up to no more than the
\* space used on it, 0 <= freespace <= capacity and 0 <= usage <= 100 hold for
\* every ds after every move of either balancer
C35_WithinCapacityWhenDisksWithinUsed ==
    (InPass /\ FreespaceWithinCapacity(DataStoresObjs(world)) /\ DisksWithinUsed) =>
        /\ FreespaceWithinCapacity(ds_objs)
        /\ \A d \in DOMAIN ds_objs :
               /\ RatLe(RatInt(0), ds_objs[d].usage)
               /\ RatLe(ds_objs[d].usage, RatInt(100))

\* a move that has emptied its source
C35_Witness ==
    /\ InPass
    /\ DisksWithinUsed
    /\ last_move.vm # None
    /\ ds_objs[last_move.source].freespace = ds_objs[last_move.source].capacity

\* the dict that holds the pending counters of an action
ToBeDict(what) ==
    CASE what = "suspend_vm" -> vms_to_be_suspended
      [] what = "power_off_vm" -> vms_to_be_poweredoff
      [] what = "unregister_vm" -> vms_to_be_unregistered
      [] what = "rename_ds_path" -> files_to_be_renamed
      [] what = "delete_ds_path" -> files_to_be_deleted

\* C36 as stated: at the end of a run in which the orphan was a candidate for
\* one action, the pending counter of every other action is zero for every id
C36_AsStated ==
    [][(pc = "nanny_cleanup" /\ run_log' # <<>>) =>
        \A what \in Whats \ {run_log'[1].what} :
            \A id \in DOMAIN ToBeDict(what)' : ToBeDict(what)'[id] = 0]_vars

\* the step on the vm that the latest run has performed, if any
StepPerformed ==
    run_log # <<>> /\ run_log[1].what \in VmSteps /\ run_log[1].kind = "done"

\* C37, first half: the vm is unregistered only in a run that observes it
\* powered off, and powered off only in a run that observes it suspended
C37_StepMatchesObservedState ==
    StepPerformed =>
        /\ run_log[1].what = "unregister_vm" =>
               run_log[1].power_state = "poweredOff"
        /\ run_log[1].what = "power_off_vm" =>
               run_log[1].power_state = "suspended"

\* C37 as stated: moreover, between a performed step on the vm and the next
\* one at least `iterations` runs elapse, whatever else changes the power state
C37_AsStated ==
    /\ C37_StepMatchesObservedState
    /\ StepPerformed => run_log[1].since_step >= opts.iterations

\* C38: a path is deleted only when it carries the .renamed_by_vcenter_nanny
\* suffix, a path gets the suffix only by a rename that an earlier run has
\* performed, and no run performs an action on an id again that one of the
\* runs before it, through which the id has stayed a candidate, has performed
C38_DeleteAfterRenameOnce ==
    /\ [](run_log # <<>> =>
            /\ (run_log[1].what = "delete_ds_path" /\ run_log[1].kind # "none") =>
                   EndsWithRenamed(run_log[1].id)
            /\ (run_log[1].what = "rename_ds_path") =>
                   ~EndsWithRenamed(run_log[1].id)
            /\ run_log[1].performed_before =>
                   run_log[1].kind \notin {"done", "dry_run", "off"})
    /\ [][(EndsWithRenamed(vcenter'.path) /\ ~EndsWithRenamed(vcenter.path)) =>
              /\ pc = "nanny_cleanup"
              /\ run_log'[1].what = "rename_ds_path"
              /\ run_log'[1].kind = "done"]_vars

\* a run deletes the renamed folder
C38_Witness ==
    /\ run_log # <<>>
    /\ run_log[1].what = "delete_ds_path"
    /\ run_log[1].kind = "done"
    /\ run_log[1].id = RenamedEphPath

\* C39 as stated: a run in which the properties of the vms cannot be retrieved
\* makes no call of now_or_later and leaves every counter as it was, and no run
\* makes a call for a uuid that is mounted on a vm
C39_AsStated ==
    /\ [][(pc = "nanny_cleanup" /\ properties' = "failed") =>
              /\ run_log' = <<>>
              /\ vcenter' = vcenter
              /\ UNCHANGED dicts]_vars
    /\ [](run_log # <<>> => ~vcenter.mounted)

====
